---- MODULE Spec2Model ----
(***************************************************************************)
(* Model of streamlit_app.py: one run of the script that wraps an uploaded *)
(* HTML file or ZIP into a SCORM 1.2 package.                              *)
(*                                                                         *)
(* Python strings are sequences of one-character strings, so that lower(), *)
(* endswith(), replace(), strip() and sorted() are computed, not assumed.  *)
(* The staging tree is the set of regular files and the set of directories *)
(* under course_root, each named by its on-disk relative path (POSIX: "/"  *)
(* separates components, "\" is an ordinary file-name character).          *)
(***************************************************************************)
EXTENDS Integers, Sequences, FiniteSets, TLC

VARIABLES
    uploaded,       \* the file_uploader result: NoUpload or [name, kind, ...]
    course_title,   \* st.text_input value
    scorm_id,       \* f"com.example.scorm.{uuid4().hex[:8]}"
    pc,             \* position of the script
    tmpdir_exists,  \* the TemporaryDirectory is on disk
    fs_files,       \* regular files under course_root (on-disk relative paths)
    fs_dirs,        \* directories under course_root (on-disk relative paths)
    scan,           \* order in which rglob('*') walks the staging tree
    html_files,     \* line 92
    launch_file,    \* lines 97-102
    file_list,      \* lines 104-108
    manifest,       \* generate_manifest's result (the XML as a record)
    mem_zip,        \* entries of the output archive, in write order
    pkg_name,       \* line 121
    ui,             \* messages and widgets shown, in order
    outcome         \* how the run left the with-block

vars == <<uploaded, course_title, scorm_id, pc, tmpdir_exists, fs_files,
          fs_dirs, scan, html_files, launch_file, file_list, manifest,
          mem_zip, pkg_name, ui, outcome>>

(***************************************************************************)
(* Bounds                                                                  *)
(***************************************************************************)
MaxEntries == 3     \* entries in an uploaded archive
MaxTitleLen == 4    \* characters in a course title
MaxLiveEntries == 2 \* entries in an uploaded archive under LiveSpec

(***************************************************************************)
(* Characters and strings                                                  *)
(***************************************************************************)
\* ord(c) for the characters the model uses
Ord(c) ==
    CASE c = "\t" -> 9   [] c = " " -> 32  [] c = "." -> 46  [] c = "/" -> 47
      [] c = "C" -> 67   [] c = "D" -> 68  [] c = "E" -> 69  [] c = "F" -> 70
      [] c = "H" -> 72   [] c = "I" -> 73  [] c = "L" -> 76  [] c = "M" -> 77
      [] c = "N" -> 78   [] c = "P" -> 80  [] c = "T" -> 84  [] c = "X" -> 88
      [] c = "Z" -> 90   [] c = "\\" -> 92 [] c = "_" -> 95
      [] c = "a" -> 97   [] c = "b" -> 98  [] c = "c" -> 99  [] c = "d" -> 100
      [] c = "e" -> 101  [] c = "f" -> 102 [] c = "h" -> 104 [] c = "i" -> 105
      [] c = "l" -> 108  [] c = "m" -> 109 [] c = "n" -> 110 [] c = "o" -> 111
      [] c = "p" -> 112  [] c = "s" -> 115 [] c = "t" -> 116 [] c = "x" -> 120
      [] c = "y" -> 121  [] c = "z" -> 122

\* str.lower() on one character
LowerChar(c) ==
    CASE c = "C" -> "c" [] c = "D" -> "d" [] c = "E" -> "e" [] c = "F" -> "f"
      [] c = "H" -> "h" [] c = "I" -> "i" [] c = "L" -> "l" [] c = "M" -> "m"
      [] c = "N" -> "n" [] c = "P" -> "p" [] c = "T" -> "t" [] c = "X" -> "x"
      [] c = "Z" -> "z" [] OTHER -> c

\* str.lower()
Lower(s) == [i \in 1..Len(s) |-> LowerChar(s[i])]

\* str.endswith(suffix)
EndsWith(s, suffix) ==
    /\ Len(s) >= Len(suffix)
    /\ SubSeq(s, Len(s) - Len(suffix) + 1, Len(s)) = suffix

\* str.replace(old, new) for single characters
Replace(s, old, new) == [i \in 1..Len(s) |-> IF s[i] = old THEN new ELSE s[i]]

\* str.isspace() on one character, as str.strip() uses it
IsSpace(c) == c \in {" ", "\t"}

\* str.lstrip()
RECURSIVE LStrip(_)
LStrip(s) == IF s # <<>> /\ IsSpace(Head(s)) THEN LStrip(Tail(s)) ELSE s

\* str.rstrip()
RECURSIVE RStrip(_)
RStrip(s) ==
    IF s # <<>> /\ IsSpace(s[Len(s)]) THEN RStrip(SubSeq(s, 1, Len(s) - 1))
    ELSE s

\* str.strip()
Strip(s) == RStrip(LStrip(s))

\* a < b for Python str: code-point lexicographic order
StrLess(a, b) ==
    \/ /\ Len(a) < Len(b)
       /\ SubSeq(b, 1, Len(a)) = a
    \/ \E i \in 1..Len(a) :
          /\ i <= Len(b)
          /\ SubSeq(a, 1, i - 1) = SubSeq(b, 1, i - 1)
          /\ Ord(a[i]) < Ord(b[i])

StrLeq(a, b) == a = b \/ StrLess(a, b)

\* sorted(list of str): a stable sort; the entry at position i goes to the
\* place given by the number of entries that must precede it
SortedPlace(s, i) ==
    1 + Cardinality({j \in 1..Len(s) :
                       StrLess(s[j], s[i]) \/ (s[j] = s[i] /\ j < i)})

Sorted(s) ==
    [k \in 1..Len(s) |-> s[CHOOSE i \in 1..Len(s) : SortedPlace(s, i) = k]]

Range(s) == {s[i] : i \in 1..Len(s)}

(***************************************************************************)
(* String literals of the program and of the inputs                        *)
(***************************************************************************)
DOT_ZIP == <<".", "z", "i", "p">>
INDEX_HTML == <<"i", "n", "d", "e", "x", ".", "h", "t", "m", "l">>
INDEX_HTM == <<"i", "n", "d", "e", "x", ".", "h", "t", "m">>
DOT_HTML == <<".", "h", "t", "m", "l">>
DOT_HTM == <<".", "h", "t", "m">>
IMSMANIFEST_XML == <<"i", "m", "s", "m", "a", "n", "i", "f", "e", "s", "t", ".", "x", "m", "l">>
SCORM_ZIP == <<"_", "S", "C", "O", "R", "M", ".", "z", "i", "p">>

\* archive entry names the uploads are built from (a trailing "/" is a
\* directory entry)
DocsIndexHtml == <<"d", "o", "c", "s", "/", "i", "n", "d", "e", "x", ".", "h", "t", "m", "l">>
AHtm == <<"a", ".", "h", "t", "m">>
BHtml == <<"b", ".", "h", "t", "m", "l">>
SCss == <<"s", ".", "c", "s", "s">>
IndexHtmlDirCss == <<"i", "n", "d", "e", "x", ".", "h", "t", "m", "l", "/", "x", ".", "c", "s", "s">>
DHtmlDir == <<"d", ".", "h", "t", "m", "l", "/">>
DocsBackslashIndexHtml == <<"d", "o", "c", "s", "\\", "i", "n", "d", "e", "x", ".", "h", "t", "m", "l">>

\* names of single-document uploads and of archive uploads
FooHtml == <<"f", "o", "o", ".", "h", "t", "m", "l">>
FooHtm == <<"f", "o", "o", ".", "h", "t", "m">>
MyIndexHtml == <<"m", "y", "i", "n", "d", "e", "x", ".", "h", "t", "m", "l">>
UpperIndexHtm == <<"I", "N", "D", "E", "X", ".", "H", "T", "M">>
CZip == <<"c", ".", "z", "i", "p">>
UpperCZip == <<"C", ".", "Z", "I", "P">>

(***************************************************************************)
(* Paths and the staging tree                                              *)
(***************************************************************************)
\* positions of the component separator in a POSIX path
SlashPositions(p) == {i \in 1..Len(p) : p[i] = "/"}

Max(S) == CHOOSE x \in S : \A y \in S : y <= x

\* PurePath.parent as a relative path string; <<>> is course_root itself
Parent(p) ==
    IF SlashPositions(p) = {} THEN <<>>
    ELSE SubSeq(p, 1, Max(SlashPositions(p)) - 1)

\* PurePath.name
Name(p) ==
    IF SlashPositions(p) = {} THEN p
    ELSE SubSeq(p, Max(SlashPositions(p)) + 1, Len(p))

\* ZipInfo.is_dir(): the entry name ends with "/"
IsDirEntry(e) == e # <<>> /\ e[Len(e)] = "/"

\* path an entry is extracted to, relative to course_root
EntryPath(e) == IF IsDirEntry(e) THEN SubSeq(e, 1, Len(e) - 1) ELSE e

\* regular files ZipFile.extractall creates for a set of entries
ExtractedFiles(entries) == {e \in entries : ~IsDirEntry(e)}

\* directories ZipFile.extractall creates: directory entries and the
\* upper directories of every entry
ExtractedDirs(entries) ==
    {EntryPath(e) : e \in {x \in entries : IsDirEntry(x)}}
    \cup UNION {{SubSeq(EntryPath(e), 1, i - 1) :
                    i \in SlashPositions(EntryPath(e))} : e \in entries}

\* os.scandir(d): the entries directly inside directory d
Children(d, files, dirs) == {n \in files \cup dirs : Parent(n) = d}

\* every order of a finite set
RECURSIVE Perms(_)
Perms(S) ==
    IF S = {} THEN {<<>>}
    ELSE UNION {{<<x>> \o t : t \in Perms(S \ {x})} : x \in S}

\* rglob('*') below directory d, pathlib's _RecursiveWildcardSelector: the
\* entries of d in the order scandir lists them, then the walk of each
\* subdirectory in that same order.  scandir's order is the file system's
\* choice, so every order is possible.
RECURSIVE Walk(_, _, _)
RECURSIVE WalkInto(_, _, _, _)
Walk(d, files, dirs) ==
    UNION {WalkInto(listing, SelectSeq(listing, LAMBDA n : n \in dirs),
                    files, dirs) :
              listing \in Perms(Children(d, files, dirs))}
WalkInto(yielded, subdirs, files, dirs) ==
    IF subdirs = <<>> THEN {yielded}
    ELSE UNION {WalkInto(yielded \o w, Tail(subdirs), files, dirs) :
                   w \in Walk(Head(subdirs), files, dirs)}

\* fnmatch of a path's name against '*' + suffix (case-sensitive on POSIX)
Matches(p, suffix) == EndsWith(Name(p), suffix)

\* str(rel).replace('\\', '/')
Normalize(p) == Replace(p, "\\", "/")

(***************************************************************************)
(* generate_manifest                                                       *)
(***************************************************************************)
\* lines 56-57: the loop that adds one <file> element per list entry
FileElements(fl) == [i \in 1..Len(fl) |-> Replace(fl[i], "\\", "/")]

\* the XML document, as the values it carries
generate_manifest(title, identifier, launch, files) ==
    [identifier |-> identifier,
     version |-> "1",
     schema |-> "ADL SCORM",
     schemaversion |-> "1.2",
     organizations_default |-> "ORG-1",
     organization_identifier |-> "ORG-1",
     organization_title |-> title,
     item_identifier |-> "ITEM-1",
     item_identifierref |-> "RES-1",
     item_title |-> title,
     resource_identifier |-> "RES-1",
     resource_type |-> "webcontent",
     resource_scormtype |-> "sco",
     resource_href |-> launch,
     file_hrefs |-> FileElements(Sorted(files))]

(***************************************************************************)
(* Inputs                                                                  *)
(***************************************************************************)
ArchiveEntries ==
    {INDEX_HTML, DocsIndexHtml, AHtm, BHtml, SCss, IMSMANIFEST_XML,
     IndexHtmlDirCss, DHtmlDir, DocsBackslashIndexHtml}

\* archives that can be extracted: no path is both a file and a directory
Archives ==
    {E \in SUBSET ArchiveEntries :
        /\ Cardinality(E) <= MaxEntries
        /\ ExtractedFiles(E) \cap ExtractedDirs(E) = {}}

\* what opening and extracting the archive bytes does
ZipFaults == {"none", "BadZipFile", "NotImplementedError"}

DocumentNames ==
    {FooHtml, FooHtm, INDEX_HTML, INDEX_HTM, MyIndexHtml, UpperIndexHtm}

NoUpload == [present |-> FALSE, name |-> <<>>, entries |-> {}, fault |-> "none"]

DocumentUploads ==
    {[present |-> TRUE, name |-> n, entries |-> {}, fault |-> "none"] :
        n \in DocumentNames}

ZipUploads ==
    {[present |-> TRUE, name |-> CZip, entries |-> E, fault |-> "none"] :
        E \in Archives}
    \cup {[present |-> TRUE, name |-> n, entries |-> E, fault |-> f] :
            n \in {CZip, UpperCZip}, f \in ZipFaults,
            E \in {{}, {INDEX_HTML}, {INDEX_HTML, SCss}}}

TitleChars == {"a", " ", "\t"}

RECURSIVE TitlesOfLen(_)
TitlesOfLen(n) ==
    IF n = 0 THEN {<<>>}
    ELSE {Append(t, c) : t \in TitlesOfLen(n - 1), c \in TitleChars}

Titles == UNION {TitlesOfLen(n) : n \in 0..MaxTitleLen}

DefaultTitle == <<"a", " ", "b">>

\* uuid.uuid4().hex[:8]
ScormIds == {"com.example.scorm.0a1b2c3d", "com.example.scorm.e4f5a6b7"}

ErrNotZip == "Uploaded file is not a valid ZIP."
ErrNoHtml == "No HTML files found in uploaded content."

(***************************************************************************)
(* The script                                                              *)
(***************************************************************************)
\* the script's variables before its first statement
InitScript ==
    /\ pc = "start"
    /\ tmpdir_exists = FALSE
    /\ fs_files = {}
    /\ fs_dirs = {}
    /\ scan = <<>>
    /\ html_files = <<>>
    /\ launch_file = <<>>
    /\ file_list = <<>>
    /\ manifest = [made |-> FALSE]
    /\ mem_zip = <<>>
    /\ pkg_name = <<>>
    /\ ui = <<>>
    /\ outcome = "running"

\* every upload with the default title, and every title with the uploads
\* foo.html and index.htm
Init ==
    /\ \/ /\ uploaded \in {NoUpload} \cup DocumentUploads \cup ZipUploads
          /\ course_title = DefaultTitle
          /\ scorm_id \in ScormIds
       \/ /\ uploaded \in {u \in DocumentUploads :
                              u.name \in {FooHtml, INDEX_HTM}}
          /\ course_title \in Titles
          /\ scorm_id = CHOOSE i \in ScormIds : TRUE
    /\ InitScript

\* the uploads LiveSpec starts from
LiveInit ==
    /\ uploaded \in {NoUpload} \cup DocumentUploads
                   \cup {u \in ZipUploads :
                            Cardinality(u.entries) <= MaxLiveEntries}
    /\ course_title = DefaultTitle
    /\ scorm_id = CHOOSE i \in ScormIds : TRUE
    /\ InitScript

\* lines 125-126: nothing uploaded
NoUploadInfo ==
    /\ pc = "start"
    /\ ~uploaded.present
    /\ ui' = Append(ui, [widget |-> "info"])
    /\ outcome' = "idle"
    /\ pc' = "done"
    /\ UNCHANGED <<uploaded, course_title, scorm_id, tmpdir_exists, fs_files,
                   fs_dirs, scan, html_files, launch_file, file_list,
                   manifest, mem_zip, pkg_name>>

\* lines 68-76: enter the TemporaryDirectory, write the upload next to
\* course_root, create course_root
EnterTmpDir ==
    /\ pc = "start"
    /\ uploaded.present
    /\ tmpdir_exists' = TRUE
    /\ fs_files' = {}
    /\ fs_dirs' = {}
    /\ pc' = "stage"
    /\ UNCHANGED <<uploaded, course_title, scorm_id, scan, html_files,
                   launch_file, file_list, manifest, mem_zip, pkg_name, ui,
                   outcome>>

\* line 78
IsZipName(name) == EndsWith(Lower(name), DOT_ZIP)

\* the trees ZipFile.extractall can leave behind when it raises: the entries
\* extracted so far and, for the entry it raised on, possibly its upper
\* directories without the file
PartialTrees(entries) ==
    {[files |-> ExtractedFiles(done), dirs |-> ExtractedDirs(done \cup at)] :
        done \in SUBSET entries,
        at \in {{}} \cup {{e} : e \in entries}}

\* lines 78-84: the archive branch
ExtractZip ==
    /\ pc = "stage"
    /\ IsZipName(uploaded.name)
    /\ \/ /\ uploaded.fault = "none"
          /\ fs_files' = ExtractedFiles(uploaded.entries)
          /\ fs_dirs' = ExtractedDirs(uploaded.entries)
          /\ scan' \in Walk(<<>>, ExtractedFiles(uploaded.entries),
                           ExtractedDirs(uploaded.entries))
          /\ pc' = "enumerate"
          /\ UNCHANGED <<ui, outcome>>
       \/ /\ uploaded.fault = "BadZipFile"
          /\ \E t \in PartialTrees(uploaded.entries) :
                /\ fs_files' = t.files
                /\ fs_dirs' = t.dirs
          /\ ui' = Append(ui, [widget |-> "error", text |-> ErrNotZip])
          /\ outcome' = "stopped"
          /\ pc' = "exit"
          /\ UNCHANGED scan
       \/ /\ uploaded.fault \notin {"none", "BadZipFile"}
          /\ \E t \in PartialTrees(uploaded.entries) :
                /\ fs_files' = t.files
                /\ fs_dirs' = t.dirs
          /\ outcome' = uploaded.fault
          /\ pc' = "exit"
          /\ UNCHANGED <<ui, scan>>
    /\ UNCHANGED <<uploaded, course_title, scorm_id, tmpdir_exists,
                   html_files, launch_file, file_list, manifest, mem_zip,
                   pkg_name>>

\* lines 86-88
target_name(name) ==
    IF EndsWith(Lower(name), INDEX_HTML) \/ EndsWith(Lower(name), INDEX_HTM)
    THEN name
    ELSE INDEX_HTML

\* lines 85-90: the single-document branch
StageSingle ==
    /\ pc = "stage"
    /\ ~IsZipName(uploaded.name)
    /\ fs_files' = {target_name(uploaded.name)}
    /\ fs_dirs' = {}
    /\ scan' \in Walk(<<>>, {target_name(uploaded.name)}, {})
    /\ pc' = "enumerate"
    /\ UNCHANGED <<uploaded, course_title, scorm_id, tmpdir_exists,
                   html_files, launch_file, file_list, manifest, mem_zip,
                   pkg_name, ui, outcome>>

\* course_root.rglob('*' + suffix)
RGlob(suffix) == SelectSeq(scan, LAMBDA p : Matches(p, suffix))

\* line 92, with the .htm documents listed first
HtmlFilesHtmFirst == RGlob(DOT_HTM) \o RGlob(DOT_HTML)

\* line 92
HtmlFiles == RGlob(DOT_HTML) \o RGlob(DOT_HTM)

\* lines 92-95
EnumerateHtml ==
    /\ pc = "enumerate"
    /\ html_files' = HtmlFiles
    /\ IF html_files' = <<>>
       THEN /\ ui' = Append(ui, [widget |-> "error", text |-> ErrNoHtml])
            /\ outcome' = "stopped"
            /\ pc' = "exit"
       ELSE /\ pc' = "select"
            /\ UNCHANGED <<ui, outcome>>
    /\ UNCHANGED <<uploaded, course_title, scorm_id, tmpdir_exists, fs_files,
                   fs_dirs, scan, launch_file, file_list, manifest, mem_zip,
                   pkg_name>>

\* Path.exists()
Exists(p) == p \in fs_files \cup fs_dirs

\* lines 97-102
SelectLaunch ==
    /\ pc = "select"
    /\ launch_file' = IF Exists(INDEX_HTML) THEN INDEX_HTML
                      ELSE Normalize(html_files[1])
    /\ pc' = "list"
    /\ UNCHANGED <<uploaded, course_title, scorm_id, tmpdir_exists, fs_files,
                   fs_dirs, scan, html_files, file_list, manifest, mem_zip,
                   pkg_name, ui, outcome>>

\* the regular files rglob('*') yields, in its order
WalkFiles == SelectSeq(scan, LAMBDA p : p \in fs_files)

\* lines 104-108
BuildFileList ==
    /\ pc = "list"
    /\ file_list' = [i \in 1..Len(WalkFiles) |-> Normalize(WalkFiles[i])]
    /\ pc' = "manifest"
    /\ UNCHANGED <<uploaded, course_title, scorm_id, tmpdir_exists, fs_files,
                   fs_dirs, scan, html_files, launch_file, manifest, mem_zip,
                   pkg_name, ui, outcome>>

\* line 110
CallGenerateManifest ==
    /\ pc = "manifest"
    /\ manifest' = [made |-> TRUE,
                    doc |-> generate_manifest(course_title, scorm_id,
                                              launch_file, file_list)]
    /\ pc' = "package"
    /\ UNCHANGED <<uploaded, course_title, scorm_id, tmpdir_exists, fs_files,
                   fs_dirs, scan, html_files, launch_file, file_list, mem_zip,
                   pkg_name, ui, outcome>>

\* lines 112-118: one entry per regular file, then the manifest
Package ==
    /\ pc = "package"
    /\ mem_zip' = [i \in 1..Len(WalkFiles) |->
                      [arcname |-> Normalize(WalkFiles[i]),
                       data |-> [file |-> WalkFiles[i]]]]
                  \o <<[arcname |-> IMSMANIFEST_XML,
                        data |-> [manifest |-> manifest.doc]]>>
    /\ pc' = "offer"
    /\ UNCHANGED <<uploaded, course_title, scorm_id, tmpdir_exists, fs_files,
                   fs_dirs, scan, html_files, launch_file, file_list,
                   manifest, pkg_name, ui, outcome>>

\* line 121 without the strip()
PkgNameNoStrip(title) == Replace(title, " ", "_") \o SCORM_ZIP

\* line 121
PkgName(title) == Replace(Strip(title), " ", "_") \o SCORM_ZIP

\* lines 120-124
OfferDownload ==
    /\ pc = "offer"
    /\ pkg_name' = PkgName(course_title)
    /\ ui' = ui \o <<[widget |-> "success"],
                     [widget |-> "download_button", data |-> mem_zip,
                      file_name |-> pkg_name']>>
    /\ outcome' = "success"
    /\ pc' = "exit"
    /\ UNCHANGED <<uploaded, course_title, scorm_id, tmpdir_exists, fs_files,
                   fs_dirs, scan, html_files, launch_file, file_list,
                   manifest, mem_zip>>

\* the statements inside the with-block that read or write the disk
Running == {"stage", "enumerate", "select", "list", "package"}

\* an I/O error (disk full, unreadable file) raised by a statement inside the
\* with-block; what the statement did before it raised stays done:
\* extractall and line 89 leave a partial tree, the loop of lines 105-108 a
\* prefix of file_list, the loop of lines 114-117 a prefix of the archive,
\* closed by a truncated entry when zf.write failed while reading its source
RaiseIOError ==
    /\ pc \in Running
    /\ \/ /\ pc = "stage"
          /\ IF IsZipName(uploaded.name)
             THEN \E t \in PartialTrees(uploaded.entries) :
                     /\ fs_files' = t.files
                     /\ fs_dirs' = t.dirs
             ELSE /\ fs_files' \in {{}, {target_name(uploaded.name)}}
                  /\ fs_dirs' = {}
          /\ UNCHANGED <<file_list, mem_zip>>
       \/ /\ pc \in {"enumerate", "select"}
          /\ UNCHANGED <<fs_files, fs_dirs, file_list, mem_zip>>
       \/ /\ pc = "list"
          /\ \E k \in 0..Len(WalkFiles) :
                file_list' = [i \in 1..k |-> Normalize(WalkFiles[i])]
          /\ UNCHANGED <<fs_files, fs_dirs, mem_zip>>
       \/ /\ pc = "package"
          /\ \E k \in 0..Len(WalkFiles) :
                LET written == [i \in 1..k |->
                                   [arcname |-> Normalize(WalkFiles[i]),
                                    data |-> [file |-> WalkFiles[i]]]]
                IN \/ mem_zip' = written
                   \/ /\ k < Len(WalkFiles)
                      /\ mem_zip' =
                            Append(written,
                                   [arcname |-> Normalize(WalkFiles[k + 1]),
                                    data |-> [part_of |-> WalkFiles[k + 1]]])
          /\ UNCHANGED <<fs_files, fs_dirs, file_list>>
    /\ outcome' = "OSError"
    /\ pc' = "exit"
    /\ UNCHANGED <<uploaded, course_title, scorm_id, tmpdir_exists, scan,
                   html_files, launch_file, manifest, pkg_name, ui>>

\* the directory removed only at the end of a successful run
ExitTmpDirOnSuccessOnly ==
    /\ pc = "exit"
    /\ tmpdir_exists' = (outcome # "success")
    /\ fs_files' = IF outcome = "success" THEN {} ELSE fs_files
    /\ fs_dirs' = IF outcome = "success" THEN {} ELSE fs_dirs
    /\ pc' = "done"
    /\ UNCHANGED <<uploaded, course_title, scorm_id, scan, html_files,
                   launch_file, file_list, manifest, mem_zip, pkg_name, ui,
                   outcome>>

\* line 69: TemporaryDirectory.__exit__, run when the block is left normally,
\* by st.stop()'s exception or by any other exception
ExitTmpDir ==
    /\ pc = "exit"
    /\ tmpdir_exists' = FALSE
    /\ fs_files' = {}
    /\ fs_dirs' = {}
    /\ pc' = "done"
    /\ UNCHANGED <<uploaded, course_title, scorm_id, scan, html_files,
                   launch_file, file_list, manifest, mem_zip, pkg_name, ui,
                   outcome>>

Next ==
    \/ NoUploadInfo
    \/ EnterTmpDir
    \/ ExtractZip
    \/ StageSingle
    \/ EnumerateHtml
    \/ SelectLaunch
    \/ BuildFileList
    \/ CallGenerateManifest
    \/ Package
    \/ OfferDownload
    \/ RaiseIOError
    \/ ExitTmpDir

Spec == Init /\ [][Next]_vars

\* the script runs to its end: no statement blocks
LiveSpec == LiveInit /\ [][Next]_vars /\ WF_vars(Next)

(***************************************************************************)
(* Properties                                                              *)
(***************************************************************************)
\* the HTML/HTM documents of the staging tree: regular files named *.html
\* or *.htm
HtmlDocs == {p \in fs_files : Matches(p, DOT_HTML) \/ Matches(p, DOT_HTM)}

UiTexts == {ui[i].text : i \in {j \in 1..Len(ui) : ui[j].widget = "error"}}

\* C1: once the launch file is chosen it is 'index.html' if a regular file
\* index.html lies at the staging root, and otherwise the HTML/HTM document
\* that is least in path string order, whatever order the traversal used.
C1_LaunchByPathOrder ==
    pc = "list" =>
        IF INDEX_HTML \in fs_files THEN launch_file = INDEX_HTML
        ELSE /\ launch_file \in {Normalize(p) : p \in HtmlDocs}
             /\ \A p \in HtmlDocs : StrLeq(launch_file, Normalize(p))

\* C2: when generate_manifest is called, file_list is not empty and the
\* launch file is in it and is an HTML/HTM regular file of the staging tree.
C2_LaunchInFileList ==
    pc = "manifest" =>
        /\ file_list # <<>>
        /\ launch_file \in Range(file_list)
        /\ launch_file \in {Normalize(p) : p \in HtmlDocs}

\* C3: an archive whose extracted tree has no HTML/HTM regular file never
\* gets past the NoContentFound check, and the NoContentFound error is shown
\* only for a tree without HTML/HTM documents.
C3_NoContentFound ==
    /\ (IsZipName(uploaded.name)
          /\ pc \in {"select", "list", "manifest", "package", "offer"})
       => HtmlDocs # {}
    /\ (pc = "exit" /\ ErrNoHtml \in UiTexts) =>
          (HtmlDocs = {} /\ ~manifest.made /\ mem_zip = <<>>)

\* C4: a run on a .zip upload that cannot be opened or decompressed ends
\* stopped with the InvalidArchive error shown, no manifest and no archive
\* (runs ended by a disk I/O error aside).
C4_InvalidArchive ==
    (pc = "done" /\ IsZipName(uploaded.name) /\ uploaded.fault # "none"
        /\ outcome # "OSError")
    => /\ outcome = "stopped"
       /\ ErrNotZip \in UiTexts
       /\ ~manifest.made
       /\ mem_zip = <<>>

\* C5: a single document named index.html or index.htm is staged under its
\* own name, any other as index.html; the staged tree has exactly that one
\* file, and for the other names the manifest's resource href is index.html.
C5_StagedName ==
    (uploaded.present /\ ~IsZipName(uploaded.name)) =>
        /\ pc = "enumerate" =>
              /\ fs_dirs = {}
              /\ fs_files = {IF uploaded.name \in {INDEX_HTML, INDEX_HTM}
                             THEN uploaded.name ELSE INDEX_HTML}
        /\ (manifest.made /\ uploaded.name \notin {INDEX_HTML, INDEX_HTM}) =>
              manifest.doc.resource_href = INDEX_HTML

\* C6 as stated: an archive with docs/index.html and nothing named
\* index.html at the root launches docs/index.html, whatever else it holds.
C6_DocsIndexAlways ==
    (pc = "list" /\ IsZipName(uploaded.name) /\ DocsIndexHtml \in fs_files
        /\ ~Exists(INDEX_HTML))
    => launch_file = DocsIndexHtml

\* C6 amended: an archive with docs/index.html and nothing named index.html
\* at the root launches docs/index.html when docs/index.html is the only
\* entry of the tree whose name ends in .html, whatever .htm documents and
\* other files it holds.
C6_DocsIndexOnlyHtml ==
    (pc = "list" /\ IsZipName(uploaded.name) /\ DocsIndexHtml \in fs_files
        /\ ~Exists(INDEX_HTML)
        /\ \A n \in fs_files \cup fs_dirs :
              Matches(n, DOT_HTML) => n = DocsIndexHtml)
    => launch_file = DocsIndexHtml

C6_Witness ==
    /\ pc = "list"
    /\ IsZipName(uploaded.name)
    /\ fs_files = {DocsIndexHtml, AHtm, SCss}
    /\ launch_file = DocsIndexHtml

\* C7: the hrefs of the manifest's <file> elements are exactly the staged
\* file set F: one href per staged regular file, its forward-slash relative
\* path, no two staged files sharing an href (none lost, added or merged);
\* the elements are in ascending string order and no href holds a backslash.
C7_ManifestFilesExact ==
    (manifest.made /\ tmpdir_exists) =>
        LET h == manifest.doc.file_hrefs IN
        /\ Range(h) = {Normalize(p) : p \in fs_files}
        /\ Len(h) = Cardinality(fs_files)
        /\ \A i, j \in 1..Len(h) : h[i] = h[j] => i = j
        /\ \A p, q \in fs_files : Normalize(p) = Normalize(q) => p = q
        /\ \A i \in 1..Len(h) - 1 : StrLeq(h[i], h[i + 1])
        /\ \A i \in 1..Len(h) : \A k \in 1..Len(h[i]) : h[i][k] # "\\"

\* C8: the output archive has one entry per staged file at its relative
\* path, exactly one entry imsmanifest.xml holding the manifest, and no two
\* entries with the same name.
C8_ArchiveLayout ==
    pc = "offer" =>
        /\ \A p \in fs_files :
              \E i \in 1..Len(mem_zip) :
                 /\ mem_zip[i].arcname = Normalize(p)
                 /\ mem_zip[i].data = [file |-> p]
        /\ Cardinality({i \in 1..Len(mem_zip) :
                           mem_zip[i].arcname = IMSMANIFEST_XML}) = 1
        /\ \A i \in 1..Len(mem_zip) :
              mem_zip[i].arcname = IMSMANIFEST_XML =>
                 mem_zip[i].data = [manifest |-> manifest.doc]
        /\ \A i, j \in 1..Len(mem_zip) :
              mem_zip[i].arcname = mem_zip[j].arcname => i = j

\* the download button was shown with the complete archive
ArchiveOffered ==
    /\ Len(mem_zip) = Cardinality(fs_files) + 1
    /\ \E i \in 1..Len(ui) :
          ui[i].widget = "download_button" /\ ui[i].data = mem_zip

\* C9: a staging directory that exists is eventually deleted, no finished
\* run leaves one behind, and a successful run deletes it only after the
\* whole output archive was built and offered.
C9_TmpDirReleased ==
    /\ [](tmpdir_exists => <>(~tmpdir_exists))
    /\ [](pc = "done" => ~tmpdir_exists)
    /\ [][(tmpdir_exists /\ ~tmpdir_exists' /\ outcome = "success")
             => ArchiveOffered]_vars

C9_Witness ==
    /\ pc = "done"
    /\ outcome = "NotImplementedError"
    /\ ~tmpdir_exists

\* C10 as stated: the archive name is the title with every whitespace
\* character, leading and trailing ones and tabs included, replaced by an
\* underscore, followed by _SCORM.zip.
C10_EveryWhitespaceReplaced ==
    outcome = "success" =>
        pkg_name = [i \in 1..Len(course_title) |->
                       IF IsSpace(course_title[i]) THEN "_"
                       ELSE course_title[i]] \o SCORM_ZIP

\* positions of the title's characters that are not whitespace
Inked(t) == {i \in 1..Len(t) : ~IsSpace(t[i])}

Min(S) == CHOOSE x \in S : \A y \in S : x <= y

\* C10 amended: the archive name is the title without its leading and
\* trailing whitespace, each space character that remains replaced by an
\* underscore and every other character (tabs too) unchanged, followed by
\* _SCORM.zip.
C10_StripThenSpaces ==
    outcome = "success" =>
        LET t == course_title
            n == Len(pkg_name) - Len(SCORM_ZIP)
        IN /\ EndsWith(pkg_name, SCORM_ZIP)
           /\ IF Inked(t) = {} THEN n = 0
              ELSE /\ n = Max(Inked(t)) - Min(Inked(t)) + 1
                   /\ \A i \in 1..n :
                         pkg_name[i] =
                            IF t[Min(Inked(t)) + i - 1] = " " THEN "_"
                            ELSE t[Min(Inked(t)) + i - 1]

C10_Witness ==
    /\ outcome = "success"
    /\ course_title = <<" ", "a", "\t", "a">>
    /\ pkg_name = <<"a", "\t", "a">> \o SCORM_ZIP

====
